---- MODULE Spec2Model ----
(***************************************************************************)
(* Explorer::collect and Explorer::estimate_launch_time of                 *)
(* src/src/explorer.rs as a state machine.                                 *)
(*                                                                         *)
(* One run of collect is one behaviour.  The precursor chain is the        *)
(* environment: every value an RPC call returns is drawn, at the step that *)
(* makes the call, from a small set of values the chain can hold.  A block *)
(* is carried by its number; its header fields are BlockTimestamp and      *)
(* BlockHash of that number, and the lock in its cellbase witness is drawn *)
(* at the one place the code decodes it (each block's witness is decoded   *)
(* at most once in a run).                                                 *)
(*                                                                         *)
(* Units.  TLC's integers are 32 bits wide, a Capacity is a u64 count of   *)
(* shannons.  Primary rewards are drawn as whole bytes (1 byte =           *)
(* BYTE_SHANNONS shannons), so `rewards`, `total`, THRESHOLD and           *)
(* TOTAL_REWARD are carried in bytes: every comparison and every quotient  *)
(* the code takes of two such values is unchanged by the common factor.    *)
(* The one value that is not a whole number of bytes, the rational share   *)
(* of line 124, is carried as <<bytes, shannons>> with                     *)
(* 0 <= shannons < BYTE_SHANNONS, and so are the entries of `map`.         *)
(* The checked additions (safe_add) stay far below 2^64 for the rewards    *)
(* drawn here, so their error branch is not taken.                         *)
(*                                                                         *)
(* compact_to_difficulty and difficulty_to_compact belong to ckb_types: an *)
(* epoch is drawn with the difficulty its compact target decodes to, and   *)
(* `diff` is the value handed to the encoder.                              *)
(***************************************************************************)
EXTENDS Integers, Sequences, FiniteSets, TLC

(* ---------------- program constants ---------------- *)

\* const TOTAL_REWARD: Capacity = capacity_bytes!(18_000_000), in bytes
TOTAL_REWARD == 18000000
\* const THRESHOLD: Capacity = capacity_bytes!(1_000), in bytes
THRESHOLD == 1000
METRIC_EPOCH == 4
BYTE_SHANNONS == 100000000
\* the literal 11 of the priming loop, the scan range, the pop test, the gate
\* and the estimator
WINDOW == 11
\* 4 * 3600, the default epoch duration of the estimator, in seconds
DEFAULT_EPOCH_DURATION == 14400

(* ---------------- bounds of the model ---------------- *)

\* targets 0 .. MaxTarget
MaxTarget == 3
\* the scan's endpoint (start of epoch target+1, minus 1) is at most this
MaxEndpoint == 4
\* the tip is in an epoch 0 .. MaxTarget + TipAhead
TipAhead == 2

Targets == 0..MaxTarget
TipEpochs == 0..(MaxTarget + TipAhead)
\* length of the epoch the tip is in (scaled down; at least 12, so that an
\* index of 11 exists)
EpochLengths == {12, 13}
\* primary rewards a block can carry, in bytes
Primaries == {500, 2000}
\* difficulties an epoch's compact target can decode to
Difficulties == {17143, 17145}
\* timestamps (ms, relative) of epoch-start headers the estimator reads
Timestamps == {0, 50000000, 57600000}

\* Lock scripts found in cellbase witnesses: two of them share their args.
Locks ==
    { [code_hash |-> "sighash",  args |-> "alice"],
      [code_hash |-> "multisig", args |-> "alice"],
      [code_hash |-> "sighash",  args |-> "bob"] }

NoHeader == [number |-> -1, index |-> -1, length |-> -1]
NoRead == [block |-> -1]
NoResult == [timestamp |-> -1]

VARIABLES
    pc,                 \* position in collect / estimate_launch_time
    target,             \* Explorer.target
    map,                \* the caller's BTreeMap<Bytes, Capacity>: args -> <<bytes, shannons>>
    tip_epoch,          \* tip_header.epoch(): number, index, length
    endpoint,           \* next_epoch_start - 1
    num,                \* priming loop variable (last block primed)
    cursor,             \* scan loop variable
    windows,            \* VecDeque<BlockView>, as block numbers, front first
    rewards,            \* HashMap<Script, Capacity>, in bytes
    target_lock,        \* the witness last decoded: the block it was read from, its lock
    reward,             \* the capacity details last looked up: the block, its primary
    chosen_one,         \* the anchor block
    accumulated,        \* history: `rewards` as the scan left it, before retain
    total,              \* total effective reward, in bytes
    epochs,             \* Vec of the metric epochs fetched: number, length, difficulty
    avg_diff,
    diff,               \* the difficulty handed to difficulty_to_compact
    result,             \* the tuple collect returns
    avg_epoch_duration, \* estimator
    remaining_duration  \* estimator: remaining_seconds as i64

vars == << pc, target, map, tip_epoch, endpoint, num, cursor, windows, rewards,
           target_lock, reward, chosen_one, accumulated, total, epochs,
           avg_diff, diff, result, avg_epoch_duration, remaining_duration >>

(* ---------------- helpers ---------------- *)

EmptyMap == [x \in {} |-> 0]

Min(a, b) == IF a <= b THEN a ELSE b

RECURSIVE SumOver(_, _)
SumOver(f, S) ==
    IF S = {} THEN 0
    ELSE LET x == CHOOSE y \in S : TRUE IN f[x] + SumOver(f, S \ {x})

RECURSIVE SumSeq(_)
SumSeq(s) == IF s = <<>> THEN 0 ELSE Head(s) + SumSeq(Tail(s))

RECURSIVE Gcd(_, _)
Gcd(a, b) == IF b = 0 THEN a ELSE Gcd(b, a % b)

\* header fields of the block with a given number (distinct blocks differ)
BlockTimestamp(n) == 1000 + 8 * n
BlockHash(n) == <<"hash", n>>


(* ---------------- the code's tests and computations ---------------- *)

\* line 42: the chain is not ready for the target
NotReady(tip, tgt) == (tip.number < tgt + 1) \/ (tip.index < WINDOW)

\* faulty variant of TargetBlock: the witness of the block just pushed
NewestBlock(w) == w[Len(w)]

\* line 95: windows[0], the block whose cellbase witness is decoded
TargetBlock(w) == w[1]

\* faulty variant of ShouldPop: the front is popped on the last iteration too
AlwaysPop(c, e) == TRUE

\* faulty variant of ShouldPop: the front is never popped inside the loop
NeverPop(c, e) == FALSE

\* line 108: the front is popped unless this is the last iteration
ShouldPop(c, e) == c # e + WINDOW

\* faulty variant of Anchor: the back of the window, the last block scanned
AnchorBack(w) == w[Len(w)]

\* line 112: windows.pop_front(), the block taken as chosen_one
Anchor(w) == Head(w)

\* lines 104-107: entry(target_lock).or_insert_with(zero), then safe_add(primary)
Credit(r, lock, primary) ==
    [l \in DOMAIN r \cup {lock} |->
        IF l = lock THEN (IF l \in DOMAIN r THEN r[l] ELSE 0) + primary
        ELSE r[l]]

\* faulty variant of Retain: an entry exactly at the threshold is kept
RetainAtThreshold(r) == [l \in {k \in DOMAIN r : r[k] >= THRESHOLD} |-> r[l]]

\* line 113: rewards.retain(|_, &mut r| r > THRESHOLD)
Retain(r) == [l \in {k \in DOMAIN r : r[k] > THRESHOLD} |-> r[l]]

\* lines 115-118: the checked sum of the retained capacities
TotalOf(r) == SumOver(r, DOMAIN r)

\* lines 121-124: ratio = RationalU256::new(capacity, total) (reduced by the
\* gcd), then (TOTAL_REWARD / 1 * ratio).into_u256(): the floor of
\* TOTAL_REWARD * capacity / total in shannons, as <<bytes, shannons>>.  The
\* value is at most TOTAL_REWARD < 2^64, so get_low64 returns it whole.
Share(capacity, tot) ==
    LET g    == Gcd(capacity, tot)
        n    == capacity \div g
        d    == tot \div g
        prod == TOTAL_REWARD * n
    IN  << prod \div d, ((prod % d) * BYTE_SHANNONS) \div d >>

\* faulty variant of Truncate: the share is not rounded down to whole bytes
NoTruncate(x) == x

\* line 124: (x / BYTE_SHANNONS) * BYTE_SHANNONS
Truncate(x) == << x[1], 0 >>

\* line 129: entry.safe_add(reward) on <<bytes, shannons>>
AddCapacity(x, y) ==
    << x[1] + y[1] + ((x[2] + y[2]) \div BYTE_SHANNONS),
       (x[2] + y[2]) % BYTE_SHANNONS >>

\* lines 120-130: every retained lock's truncated share, added under the key
\* lock.args().raw_data() to the entry already there (or zero)
RECURSIVE AddShares(_, _, _, _)
AddShares(m, r, tot, todo) ==
    IF todo = {} THEN m
    ELSE LET lock == CHOOSE l \in todo : TRUE
             key  == lock.args
             old  == IF key \in DOMAIN m THEN m[key] ELSE <<0, 0>>
             new  == AddCapacity(old, Truncate(Share(r[lock], tot)))
         IN  AddShares([a \in DOMAIN m \cup {key} |-> IF a = key THEN new ELSE m[a]],
                       r, tot, todo \ {lock})

\* lines 141-145: the sum of the decoded difficulties, divided by METRIC_EPOCH
AvgDifficulty(eps) ==
    SumSeq([i \in 1..Len(eps) |-> eps[i].difficulty]) \div METRIC_EPOCH

\* faulty variant of Rescale: one division, at the end
RescaleExact(avg, tot) == (avg * 3 * tot) \div (2 * TOTAL_REWARD)

\* lines 147-148: (avg_diff * 3 / 2) * total / TOTAL_REWARD, each division
\* an integer division, left to right
Rescale(avg, tot) == (((avg * 3) \div 2) * tot) \div TOTAL_REWARD

\* faulty variant of GenesisEpochLength: the last epoch fetched, the oldest
OldestEpochLength(eps) == eps[Len(eps)].length

\* line 157: epochs[0].length
GenesisEpochLength(eps) == eps[1].length

\* lines 203-205, then `as i64` of line 206.  With tip.number > target the
\* u64 subtraction underflows; a build without overflow checks wraps, and the
\* wrapped sum read as an i64 is this same integer expression.
RemainingSeconds(tgt, tip, avg) ==
    (tgt - tip.number) * avg
        + (avg * (tip.length - tip.index + WINDOW)) \div tip.length

(* ---------------- the state machine ---------------- *)

Init ==
    /\ pc = "tip"
    /\ target \in Targets
    /\ map = EmptyMap
    /\ tip_epoch = NoHeader
    /\ endpoint = 0
    /\ num = 0
    /\ cursor = 0
    /\ windows = <<>>
    /\ rewards = EmptyMap
    /\ target_lock = NoRead
    /\ reward = NoRead
    /\ chosen_one = -1
    /\ accumulated = EmptyMap
    /\ total = 0
    /\ epochs = <<>>
    /\ avg_diff = 0
    /\ diff = 0
    /\ result = NoResult
    /\ avg_epoch_duration = 0
    /\ remaining_duration = 0

\* line 40-41: get_tip_header
GetTipHeader ==
    /\ pc = "tip"
    /\ \E e \in TipEpochs, len \in EpochLengths :
         \E i \in 0..(len - 1) :
            tip_epoch' = [number |-> e, index |-> i, length |-> len]
    /\ pc' = "gate"
    /\ UNCHANGED << target, map, endpoint, num, cursor, windows, rewards,
                    target_lock, reward, chosen_one, accumulated, total, epochs,
                    avg_diff, diff, result, avg_epoch_duration, remaining_duration >>

\* lines 42-43 and 161-225: the gate sends a chain that is not ready to
\* estimate_launch_time.  Below METRIC_EPOCH epochs the average duration is
\* the default; otherwise it is (t2 - t1) / METRIC_EPOCH / 1000 of the
\* timestamps of the first block of epoch tip-4 (t1) and of the tip's epoch
\* (t2).  A build with overflow checks panics on target - tip.number < 0.
EstimateLaunchTime ==
    /\ pc = "gate"
    /\ NotReady(tip_epoch, target)
    /\ \E t1 \in Timestamps, t2 \in Timestamps :
         /\ t1 < t2
         /\ avg_epoch_duration' =
              IF tip_epoch.number < METRIC_EPOCH
              THEN DEFAULT_EPOCH_DURATION
              ELSE ((t2 - t1) \div METRIC_EPOCH) \div 1000
    /\ \/ /\ remaining_duration' =
               RemainingSeconds(target, tip_epoch, avg_epoch_duration')
          /\ pc' = "estimated"
       \/ /\ tip_epoch.number > target
          /\ remaining_duration' = remaining_duration
          /\ pc' = "panic_estimate"
    /\ UNCHANGED << target, map, tip_epoch, endpoint, num, cursor, windows, rewards,
                    target_lock, reward, chosen_one, accumulated, total, epochs,
                    avg_diff, diff, result >>

\* line 44: exit(1) after the estimate was printed
ExitNotReady ==
    /\ pc = "estimated"
    /\ pc' = "exit_not_ready"
    /\ UNCHANGED << target, map, tip_epoch, endpoint, num, cursor, windows, rewards,
                    target_lock, reward, chosen_one, accumulated, total, epochs,
                    avg_diff, diff, result, avg_epoch_duration, remaining_duration >>

\* lines 47-57: get_epoch_by_number(target + 1); every epoch 0..target holds
\* at least one block, so epoch target+1 starts at block target+1 or later.
\* tip_header is not read again on this path: the model forgets it.
GetNextEpoch ==
    /\ pc = "gate"
    /\ ~NotReady(tip_epoch, target)
    /\ \E next_epoch_start \in (target + 1)..(MaxEndpoint + 1) :
         endpoint' = next_epoch_start - 1
    /\ tip_epoch' = NoHeader
    /\ rewards' = EmptyMap
    /\ windows' = <<>>
    /\ num' = 0
    /\ pc' = "prime"
    /\ UNCHANGED << target, map, cursor, target_lock, reward,
                    chosen_one, accumulated, total, epochs, avg_diff, diff, result,
                    avg_epoch_duration, remaining_duration >>

\* lines 66-74: one iteration of the priming loop, num in 1..=11
Prime ==
    /\ pc = "prime"
    /\ num < WINDOW
    /\ num' = num + 1
    /\ windows' = Append(windows, num + 1)
    /\ IF num + 1 < WINDOW
       THEN pc' = "prime" /\ cursor' = cursor
       ELSE /\ cursor' = WINDOW + 1
            /\ pc' = IF WINDOW + 1 <= endpoint + WINDOW THEN "scan_push" ELSE "anchor"
    /\ UNCHANGED << target, map, tip_epoch, endpoint, rewards, target_lock, reward,
                    chosen_one, accumulated, total, epochs, avg_diff, diff, result,
                    avg_epoch_duration, remaining_duration >>

\* lines 78-83: the block at cursor is fetched and pushed
ScanPush ==
    /\ pc = "scan_push"
    /\ windows' = Append(windows, cursor)
    /\ pc' = "scan_credit"
    /\ UNCHANGED << target, map, tip_epoch, endpoint, num, cursor, rewards,
                    target_lock, reward, chosen_one, accumulated, total, epochs,
                    avg_diff, diff, result, avg_epoch_duration, remaining_duration >>

\* lines 85-107: the hash of block cursor, the capacity details of that
\* hash, the lock in the witness of windows[0], and the credit
ScanCredit ==
    /\ pc = "scan_credit"
    /\ \E lock \in Locks, primary \in Primaries :
         /\ reward' = [block |-> cursor, hash |-> BlockHash(cursor), primary |-> primary]
         /\ target_lock' = [block |-> TargetBlock(windows), lock |-> lock]
         /\ rewards' = Credit(rewards, lock, primary)
    /\ pc' = "scan_pop"
    /\ UNCHANGED << target, map, tip_epoch, endpoint, num, cursor, windows,
                    chosen_one, accumulated, total, epochs, avg_diff, diff, result,
                    avg_epoch_duration, remaining_duration >>

\* lines 108-110 and the loop's step: pop the front unless this is the last
\* iteration, then go on to the next cursor or leave the loop
ScanPop ==
    /\ pc = "scan_pop"
    /\ windows' = IF ShouldPop(cursor, endpoint) THEN Tail(windows) ELSE windows
    /\ IF cursor < endpoint + WINDOW
       THEN cursor' = cursor + 1 /\ pc' = "scan_push"
       ELSE cursor' = cursor /\ pc' = "anchor"
    /\ UNCHANGED << target, map, tip_epoch, endpoint, num, rewards, target_lock,
                    reward, chosen_one, accumulated, total, epochs, avg_diff, diff,
                    result, avg_epoch_duration, remaining_duration >>

\* line 112: chosen_one = windows.pop_front()
PopAnchor ==
    /\ pc = "anchor"
    /\ windows # <<>>
    /\ chosen_one' = Anchor(windows)
    /\ windows' = Tail(windows)
    /\ pc' = "allocate"
    /\ UNCHANGED << target, map, tip_epoch, endpoint, num, cursor, rewards,
                    target_lock, reward, accumulated, total, epochs, avg_diff, diff,
                    result, avg_epoch_duration, remaining_duration >>

\* lines 113-130: retain, total, and the allocation loop
Allocate ==
    /\ pc = "allocate"
    /\ accumulated' = rewards
    /\ rewards' = Retain(rewards)
    /\ total' = TotalOf(rewards')
    /\ map' = AddShares(map, rewards', total', DOMAIN rewards')
    /\ pc' = "epochs"
    /\ UNCHANGED << target, tip_epoch, endpoint, num, cursor, windows, target_lock,
                    reward, chosen_one, epochs, avg_diff, diff, result,
                    avg_epoch_duration, remaining_duration >>

\* What is left of a run that ended before collect returned: the locals are
\* gone, the caller's map is as the run left it.
Ended ==
    /\ tip_epoch' = NoHeader
    /\ endpoint' = 0
    /\ num' = 0
    /\ cursor' = 0
    /\ windows' = <<>>
    /\ rewards' = EmptyMap
    /\ target_lock' = NoRead
    /\ reward' = NoRead
    /\ chosen_one' = -1
    /\ accumulated' = EmptyMap
    /\ total' = 0
    /\ epochs' = <<>>
    /\ avg_diff' = 0
    /\ diff' = 0
    /\ result' = NoResult
    /\ avg_epoch_duration' = 0
    /\ remaining_duration' = 0
    /\ UNCHANGED << target, map >>

\* lines 132-139, one epoch: get_epoch_by_number(target - i) for
\* i = Len(epochs).  The epochs 0..target hold endpoint + 1 blocks between
\* them, each at least one.
GetEpoch ==
    /\ pc = "epochs"
    /\ target >= Len(epochs)
    /\ LET i      == Len(epochs)
           number == target - i
           left   == (endpoint + 1) - SumSeq([k \in 1..i |-> epochs[k].length])
       IN  /\ \E difficulty \in Difficulties,
                 length \in (IF number = 0 THEN left ELSE 1)..(left - number) :
                epochs' = Append(epochs, [number |-> number, length |-> length,
                                          difficulty |-> difficulty])
           /\ pc' = IF i + 1 = METRIC_EPOCH THEN "derive" ELSE "epochs"
    /\ UNCHANGED << target, map, tip_epoch, endpoint, num, cursor, windows, rewards,
                    target_lock, reward, chosen_one, accumulated, total, avg_diff,
                    diff, result, avg_epoch_duration, remaining_duration >>

\* line 135 with target < i: the u64 subtraction target - i underflows.  A
\* build with overflow checks panics; one without asks the chain for an epoch
\* number it does not have, and exits.
GetEpochUnderflow ==
    /\ pc = "epochs"
    /\ target < Len(epochs)
    /\ pc' \in {"panic_epochs", "exit_lookup"}
    /\ Ended

\* lines 141-158: the average difficulty, the rescaled difficulty (handed to
\* difficulty_to_compact), and the returned tuple
Derive ==
    /\ pc = "derive"
    /\ avg_diff' = AvgDifficulty(epochs)
    /\ diff' = Rescale(avg_diff', total)
    /\ result' = [timestamp    |-> BlockTimestamp(chosen_one),
                  difficulty   |-> diff',
                  hash         |-> BlockHash(chosen_one),
                  epoch_length |-> GenesisEpochLength(epochs)]
    /\ pc' = "done"
    /\ UNCHANGED << target, map, tip_epoch, endpoint, num, cursor, windows, rewards,
                    target_lock, reward, chosen_one, accumulated, total, epochs,
                    avg_epoch_duration, remaining_duration >>

\* any chain read that errs or finds nothing ends the run (`?`, exit(1))
LookupFails ==
    /\ pc \in {"tip", "gate", "prime", "scan_push", "scan_credit", "epochs"}
    /\ pc' = "exit_lookup"
    /\ Ended

Next ==
    \/ GetTipHeader
    \/ EstimateLaunchTime
    \/ ExitNotReady
    \/ GetNextEpoch
    \/ Prime
    \/ ScanPush
    \/ ScanCredit
    \/ ScanPop
    \/ PopAnchor
    \/ Allocate
    \/ GetEpoch
    \/ GetEpochUnderflow
    \/ Derive
    \/ LookupFails

Spec == Init /\ [][Next]_vars

(* ---------------- properties ---------------- *)

\* what a lock holds in a reward mapping, zero when it has no entry
Held(r, l) == IF l \in DOMAIN r THEN r[l] ELSE 0

\* blocks fetched so far by the priming and scan loops
BlocksSeen ==
    CASE pc = "prime" -> num
      [] pc = "scan_push" -> cursor - 1
      [] pc \in {"scan_credit", "scan_pop"} -> cursor
      [] OTHER -> endpoint + WINDOW

\* C1: in the scan, the primary reward looked up for block N (N from 12 to
\* endpoint+11) is added to the total of the lock decoded from the witness of
\* block N-11 and to no other total; the loop takes every N of that range in
\* turn, once: a credit is always followed by the step to N+1 or by the end
\* of the loop at N = endpoint+11, and nothing else changes the totals.
C1_Attribution ==
    /\ [][ (pc = "scan_credit" /\ pc' = "scan_pop") =>
             /\ cursor \in (WINDOW + 1)..(endpoint + WINDOW)
             /\ reward'.block = cursor
             /\ target_lock'.block = cursor - WINDOW
             /\ \A l \in Locks :
                  Held(rewards', l) =
                    Held(rewards, l)
                      + (IF l = target_lock'.lock THEN reward'.primary ELSE 0) ]_vars
    /\ [][ (pc = "scan_pop" /\ pc' = "scan_push") =>
             (cursor' = cursor + 1 /\ rewards' = rewards) ]_vars
    /\ [][ (pc = "scan_pop" /\ pc' = "anchor") =>
             (cursor = endpoint + WINDOW /\ rewards' = rewards) ]_vars
    /\ [][ (pc = "prime" /\ pc' = "scan_push") =>
             (cursor' = WINDOW + 1 /\ rewards' = EmptyMap) ]_vars
    /\ [][ (pc = "scan_push") => rewards' = rewards \/ pc' = "exit_lookup" ]_vars

\* C1 witness: the second block of the scan was credited to the lock of
\* block 2, and two locks hold rewards
C1_Witness ==
    /\ pc = "scan_pop"
    /\ cursor = WINDOW + 2
    /\ target_lock.block = 2
    /\ Cardinality(DOMAIN rewards) = 2

\* C2: the block whose timestamp and hash collect returns is block endpoint,
\* the front of the window on the last iteration (cursor = endpoint+11): at
\* the start of every iteration the earlier fronts are gone (the window
\* holds the 11 blocks before the cursor), after the last iteration the
\* front is still there, and the timestamp and hash returned are both those
\* of that block.
C2_Anchor ==
    /\ pc = "scan_push" => windows = [i \in 1..WINDOW |-> cursor - WINDOW - 1 + i]
    /\ (pc = "anchor" /\ endpoint >= 1) =>
          /\ cursor = endpoint + WINDOW
          /\ windows = [i \in 1..(WINDOW + 1) |-> endpoint - 1 + i]
    /\ pc = "done" =>
          /\ chosen_one = endpoint
          /\ chosen_one = cursor - WINDOW
          /\ result.timestamp = BlockTimestamp(endpoint)
          /\ result.hash = BlockHash(endpoint)

\* C2 witness: collect returned after a scan of four blocks
C2_Witness ==
    /\ pc = "done"
    /\ endpoint = 4
    /\ result.hash = BlockHash(4)

\* C8 as stated: at every step of the priming and scan loops the window
\* holds min(11, blocks seen) blocks, never more than 11.
C8_Original ==
    pc \in {"prime", "scan_push", "scan_credit", "scan_pop", "anchor", "allocate"} =>
        /\ Len(windows) = Min(WINDOW, BlocksSeen)
        /\ Len(windows) <= WINDOW

\* C8 amended: the window holds min(11, blocks seen) blocks after each push
\* of the priming loop and after each pop of the scan loop; after each push
\* of the scan loop it holds 12, and still 12 when the loop ends with the
\* last front kept; it never holds more than 12, and 11 are left once the
\* anchor is taken.
C8_Window ==
    /\ Len(windows) <= WINDOW + 1
    /\ pc = "prime" => Len(windows) = Min(WINDOW, BlocksSeen)
    /\ pc = "scan_push" => Len(windows) = Min(WINDOW, BlocksSeen)
    /\ pc \in {"scan_credit", "scan_pop"} => Len(windows) = WINDOW + 1
    /\ (pc = "anchor" /\ endpoint >= 1) => Len(windows) = WINDOW + 1
    /\ (pc = "allocate" /\ endpoint >= 1) => Len(windows) = WINDOW

\* C8 witness: a block was pushed in the scan loop and the window holds 12
C8_Witness ==
    /\ pc = "scan_credit"
    /\ cursor = WINDOW + 2
    /\ Len(windows) = WINDOW + 1

\* the allocation step has run and collect's locals are still there
Allocated == pc \in {"epochs", "derive", "done"}

\* the beneficiaries strictly above the dust threshold, their total, and
\* the largest unit (in bytes) that divides every one of their rewards
Survivors == {l \in DOMAIN accumulated : accumulated[l] > THRESHOLD}
EffectiveTotal == SumOver(accumulated, Survivors)

RECURSIVE GcdOver(_, _)
GcdOver(f, S) ==
    IF S = {} THEN 0
    ELSE LET x == CHOOSE y \in S : TRUE IN Gcd(f[x], GcdOver(f, S \ {x}))

Grain == IF Survivors = {} THEN 1 ELSE GcdOver(accumulated, Survivors)
Parts(l) == accumulated[l] \div Grain
TotalParts == IF Survivors = {} THEN 1 ELSE EffectiveTotal \div Grain

\* bytes and shannons allocated over all keys of the map
MapBytes == SumOver([a \in DOMAIN map |-> map[a][1]], DOMAIN map)
MapShannons == SumOver([a \in DOMAIN map |-> map[a][2]], DOMAIN map)

\* A survivor's exact share is TOTAL_REWARD * Parts / TotalParts bytes; what
\* truncation to whole bytes takes from it is
\* (TOTAL_REWARD * Parts) % TotalParts, counted in 1/TotalParts of a byte.
\* The shortfall of the pool is counted in the same unit.
RemainderSum ==
    SumOver([l \in Survivors |-> (TOTAL_REWARD * Parts(l)) % TotalParts], Survivors)
Shortfall == (TOTAL_REWARD - MapBytes) * TotalParts

\* the whole bytes the survivors with a given key are due
DueBytes(a) ==
    LET S == {l \in Survivors : l.args = a}
    IN  SumOver([l \in S |-> (TOTAL_REWARD * Parts(l)) \div TotalParts], S)

\* C3 as stated: for every reward mapping the scan hands over, every allocated share is a whole
\* number of bytes, the shares sum to at most the pool, and the shortfall
\* equals the sum of the survivors' truncation remainders.
C3_Original ==
    (Allocated /\ accumulated # EmptyMap) =>
        /\ \A a \in DOMAIN map : map[a][2] = 0
        /\ MapBytes <= TOTAL_REWARD
        /\ Shortfall = RemainderSum

\* C3 amended: every allocated share is a whole number of bytes and the
\* shares sum to at most the pool; when at least one beneficiary survives
\* the dust filter the shortfall equals the sum of the survivors' truncation
\* remainders, and when none does nothing is allocated and the shortfall is
\* the whole pool.
C3_Allocation ==
    Allocated =>
        /\ \A a \in DOMAIN map : map[a][2] = 0
        /\ MapBytes <= TOTAL_REWARD
        /\ Survivors # {} => Shortfall = RemainderSum
        /\ Survivors = {} => (map = EmptyMap /\ MapBytes = 0)

\* C3 witness: two survivors, and truncation took something from the pool
C3_Witness ==
    /\ Allocated
    /\ Cardinality(Survivors) = 2
    /\ RemainderSum > 0
    /\ MapBytes < TOTAL_REWARD

\* C4 as stated: a beneficiary whose accumulated reward is at or below the
\* threshold is absent from the AllocationMap and is not counted in the
\* total effective reward; only entries strictly above survive.
C4_Original ==
    Allocated =>
        /\ DOMAIN rewards = Survivors
        /\ total = EffectiveTotal
        /\ \A l \in DOMAIN accumulated :
             accumulated[l] <= THRESHOLD => l.args \notin DOMAIN map

\* C4 amended: a beneficiary whose accumulated reward is at or below the
\* threshold (exactly at it included) is dropped from the rewards, is not
\* counted in the total effective reward and adds nothing to the
\* AllocationMap: the map's keys are the argument bytes of the survivors and
\* each holds the survivors' shares only.  The key of a dropped lock is
\* absent unless a surviving lock has the same argument bytes.
C4_Dust ==
    Allocated =>
        /\ DOMAIN rewards = Survivors
        /\ total = EffectiveTotal
        /\ DOMAIN map = {l.args : l \in Survivors}
        /\ \A a \in DOMAIN map : map[a] = << DueBytes(a), 0 >>
        /\ \A l \in DOMAIN accumulated :
             accumulated[l] <= THRESHOLD =>
                /\ l \notin DOMAIN rewards
                /\ l.args \in DOMAIN map => \E k \in Survivors : k.args = l.args

\* C4 witness: one lock is exactly at the threshold and its key is absent,
\* another lock survives
C4_Witness ==
    /\ Allocated
    /\ map # EmptyMap
    /\ \E l \in DOMAIN accumulated :
         accumulated[l] = THRESHOLD /\ l.args \notin DOMAIN map

\* the length the chain gave for the metric epoch with a given number
EpochLength(n) ==
    LET i == CHOOSE k \in 1..Len(epochs) : epochs[k].number = n
    IN  epochs[i].length

\* C5 as stated: the epoch length returned is that of the oldest metric
\* epoch, target-3.
C5_Original ==
    pc = "done" => result.epoch_length = EpochLength(target - 3)

\* C5 amended: the epoch length returned is that of the newest of the four
\* metric epochs, epoch number target, for every target >= 3.
C5_EpochLength ==
    pc = "done" =>
        /\ target >= METRIC_EPOCH - 1
        /\ {epochs[i].number : i \in 1..Len(epochs)} = (target - 3)..target
        /\ result.epoch_length = EpochLength(target)

\* C5 witness: collect returned, and epochs target and target-3 differ in length
C5_Witness ==
    /\ pc = "done"
    /\ EpochLength(target) # EpochLength(target - 3)

\* the rescaled difficulty with nothing rounded before the end
ExactDifficulty == (avg_diff * 3 * total) \div (2 * TOTAL_REWARD)

\* the metric epochs all decode to the same difficulty
EqualDifficulties == \A i \in 1..Len(epochs) : epochs[i].difficulty = epochs[1].difficulty

\* C7 as stated: the difficulty that is encoded is the floor of
\* avg * 3/2 * total / TOTAL_REWARD evaluated exactly, avg being the sum of
\* the four difficulties divided by 4; four equal values D average to D.
C7_Original ==
    pc = "done" =>
        /\ avg_diff = SumSeq([i \in 1..METRIC_EPOCH |-> epochs[i].difficulty]) \div 4
        /\ EqualDifficulties => avg_diff = epochs[1].difficulty
        /\ diff = ExactDifficulty
        /\ result.difficulty = diff

\* C7 amended: avg is the sum of the four difficulties divided by 4, rounded
\* down (four equal values D average to D); the difficulty that is encoded
\* is floor(floor(avg * 3 / 2) * total / TOTAL_REWARD), which is never above
\* the exact floor and, for an odd avg, can be below it; with
\* total = TOTAL_REWARD it is floor(avg * 3 / 2).
C7_Difficulty ==
    pc = "done" =>
        /\ avg_diff = SumSeq([i \in 1..METRIC_EPOCH |-> epochs[i].difficulty]) \div 4
        /\ EqualDifficulties => avg_diff = epochs[1].difficulty
        /\ diff = (((3 * avg_diff) \div 2) * total) \div TOTAL_REWARD
        /\ diff <= ExactDifficulty
        /\ total = TOTAL_REWARD => diff = (3 * avg_diff) \div 2
        /\ result.difficulty = diff

\* C7 witness: collect returned a difficulty below the exact floor
C7_Witness ==
    /\ pc = "done"
    /\ avg_diff % 2 = 1
    /\ diff < ExactDifficulty

\* the scenario of 11 priming blocks and one scan block, whose reward of
\* 2,000 bytes is the only one
OneBlockScenario ==
    /\ endpoint = 1
    /\ Cardinality(DOMAIN accumulated) = 1
    /\ \A l \in DOMAIN accumulated : accumulated[l] = 2000

\* C9 as stated: after a scan of at least one block the anchor is the last
\* block scanned, block endpoint+11; in
\* the one-block scenario it is the 12th block and the one beneficiary gets
\* the whole pool.
C9_Original ==
    (Allocated /\ endpoint >= 1) =>
        /\ chosen_one = endpoint + WINDOW
        /\ OneBlockScenario =>
             /\ chosen_one = WINDOW + 1
             /\ \A l \in DOMAIN accumulated : map = [a \in {l.args} |-> << TOTAL_REWARD, 0 >>]

\* C9 amended: the anchor is block endpoint, the front of the window when
\* block endpoint+11, the last one, is scanned (for endpoint >= 1); in the
\* one-block scenario it is block 1 and the one beneficiary gets the whole
\* pool.
C9_Scenario ==
    Allocated =>
        /\ endpoint >= 1 => chosen_one = endpoint
        /\ OneBlockScenario =>
             /\ chosen_one = 1
             /\ \A l \in DOMAIN accumulated : map = [a \in {l.args} |-> << TOTAL_REWARD, 0 >>]

\* C9 witness: the one-block scenario was allocated
C9_Witness ==
    /\ pc = "epochs"
    /\ OneBlockScenario
    /\ chosen_one = 1
    /\ MapBytes = TOTAL_REWARD

\* the tip is at or beyond index 11 of epoch tgt+1
Reached(tip, tgt) ==
    \/ tip.number > tgt + 1
    \/ (tip.number = tgt + 1 /\ tip.index >= WINDOW)

\* collect is on the not-ready path: the estimator ran (or panicked), no
\* block was scanned, nothing is returned
OnNotReadyPath == pc \in {"estimated", "panic_estimate", "exit_not_ready"}

\* C6: collect takes the not-ready path exactly when the tip has not reached
\* index 11 of epoch target+1; from every tip at or beyond that position,
\* in a later epoch at any index too, it goes on to the scan.  On the
\* not-ready path the caller's map is untouched and no tuple is produced.
C6_Gate ==
    /\ pc = "gate" =>
          /\ ENABLED EstimateLaunchTime <=> ~Reached(tip_epoch, target)
          /\ ENABLED GetNextEpoch <=> Reached(tip_epoch, target)
    /\ OnNotReadyPath =>
          /\ ~Reached(tip_epoch, target)
          /\ map = EmptyMap
          /\ result = NoResult
          /\ windows = <<>>

\* C10: whenever the gate sends a tip to the estimator, the estimate is
\* (target - epoch) * avg + avg * (length - index + 11) / length with no
\* subtraction below zero (target >= epoch, so no panic and no wrap), and
\* the remaining duration reported is between 0 and
\* (target - epoch + 2) * avg.
C10_Estimate ==
    /\ pc # "panic_estimate"
    /\ pc \in {"estimated", "exit_not_ready"} =>
          /\ target >= tip_epoch.number
          /\ tip_epoch.length - tip_epoch.index + WINDOW >= 0
          /\ remaining_duration =
               (target - tip_epoch.number) * avg_epoch_duration
                 + (avg_epoch_duration * (tip_epoch.length - tip_epoch.index + WINDOW))
                      \div tip_epoch.length
          /\ remaining_duration >= 0
          /\ remaining_duration <= (target - tip_epoch.number + 2) * avg_epoch_duration

====
